---------------------------- MODULE Spec2Model ----------------------------
(***************************************************************************)
(* Model of log_csvv2.py: main(), prompt_for_file(), _normalize_path() and *)
(* convert_to_wigle_csv().                                                 *)
(*                                                                         *)
(* Text is a sequence of one-character strings.  All characters of the     *)
(* model are ASCII, so a position in characters is a position in bytes.    *)
(* Python's None is the empty tuple and a present value v is <<v>>.        *)
(***************************************************************************)
EXTENDS Integers, Sequences, FiniteSets, TLC

None == <<>>
Some(v) == <<v>>
Val(o) == o[1]

CR == "\r"
LF == "\n"
QUOTE == "\""
APOS == "'"
COMMA == ","
SPACE == " "
SEP == "/"
DOT == "."
\* the end-of-line pseudo character csv.reader feeds its state machine
\* after the last character of every line
EOL == "EOL"

Min(a, b) == IF a <= b THEN a ELSE b
Abs(a) == IF a >= 0 THEN a ELSE 0 - a

RECURSIVE Flatten(_)
Flatten(ss) == IF ss = <<>> THEN <<>> ELSE Head(ss) \o Flatten(Tail(ss))

\* s[i:] and s[:i] with Python's 0-based index i
From(s, i) == SubSeq(s, i + 1, Len(s))
Upto(s, i) == SubSeq(s, 1, i)

\* str.rfind(c): the 0-based index of the last c in s, -1 when there is none
RFind(s, c) ==
  LET hits == {i \in 1..Len(s) : s[i] = c}
  IN IF hits = {} THEN 0 - 1 ELSE (CHOOSE i \in hits : \A j \in hits : j <= i) - 1

\* str.strip(chars), str.rstrip(chars)
RStrip(s, chars) ==
  LET keep == {i \in 1..Len(s) : s[i] \notin chars}
  IN IF keep = {} THEN <<>>
     ELSE SubSeq(s, 1, CHOOSE i \in keep : \A j \in keep : j <= i)

Strip(s, chars) ==
  LET keep == {i \in 1..Len(s) : s[i] \notin chars}
  IN IF keep = {} THEN <<>>
     ELSE SubSeq(s, CHOOSE i \in keep : \A j \in keep : i <= j,
                    CHOOSE i \in keep : \A j \in keep : j <= i)

\* str.lower() on the letters of the model
LowerChar(c) == IF c = "Q" THEN "q" ELSE c
Lower(s) == [i \in 1..Len(s) |-> LowerChar(s[i])]

(***************************************************************************)
(* _normalize_path and the os.path functions (posixpath) used by the code  *)
(***************************************************************************)
_normalize_path(s) == Strip(Strip(Strip(s, {SPACE, LF, CR}), {QUOTE}), {APOS})

\* os.path.basename
Basename(p) == From(p, RFind(p, SEP) + 1)

\* os.path.dirname
Dirname(p) ==
  LET head == Upto(p, RFind(p, SEP) + 1)
  IN IF head # <<>> /\ (\E i \in 1..Len(head) : head[i] # SEP)
     THEN RStrip(head, {SEP}) ELSE head

\* (variant: the name cut at its first dot instead of its last)
SplitextRoot_Mut(p) ==
  LET sepIndex == RFind(p, SEP)
      dots == {i \in (sepIndex + 2)..Len(p) : p[i] = DOT}
  IN IF dots = {} THEN p
     ELSE Upto(p, (CHOOSE i \in dots : \A j \in dots : i <= j) - 1)

\* os.path.splitext(p)[0]: the dot that starts the extension is the last
\* one, provided it comes after the last separator and some character
\* between that separator and the dot is not itself a dot
SplitextRoot(p) ==
  LET sepIndex == RFind(p, SEP)
      dotIndex == RFind(p, DOT)
  IN IF dotIndex > sepIndex
        /\ \E filenameIndex \in (sepIndex + 1)..(dotIndex - 1) :
              p[filenameIndex + 1] # DOT
     THEN Upto(p, dotIndex) ELSE p

\* os.path.join(a, b)
Join(a, b) ==
  IF b # <<>> /\ b[1] = SEP THEN b
  ELSE IF a = <<>> \/ a[Len(a)] = SEP THEN a \o b
  ELSE a \o <<SEP>> \o b

WigleSuffix == <<".", "w", "i", "g", "l", "e", ".", "c", "s", "v">>

\* lines 56-57: the output path derived from the input path
OutputPath(file_path) ==
  LET base_name == SplitextRoot(Basename(file_path))
  IN Join(Dirname(file_path), base_name \o WigleSuffix)

(***************************************************************************)
(* Text files.  open(file_path, "r") without newline= reads in universal   *)
(* newlines mode: a line ends at "\n", "\r" or "\r\n" and the ending is    *)
(* handed to the caller as "\n".  With newline="" the ending is handed     *)
(* over as it is in the file.                                              *)
(***************************************************************************)
\* 0-based position just after the line that starts at position pos of a
\* text of len characters
RECURSIVE LineEnd(_, _, _)
LineEnd(text, len, pos) ==
  IF pos >= len THEN len
  ELSE IF text[pos + 1] = LF THEN pos + 1
  ELSE IF text[pos + 1] = CR
  THEN (IF pos + 1 < len /\ text[pos + 2] = LF THEN pos + 2 ELSE pos + 1)
  ELSE LineEnd(text, len, pos + 1)

\* TextIOWrapper line iteration: the next line from position pos
ReadLine(text, len, pos, translate) ==
  LET e == LineEnd(text, len, pos)
      raw == [i \in 1..(e - pos) |-> text[pos + i]]
      n == e - pos
      body == IF n > 0 /\ raw[n] \in {CR, LF}
              THEN (IF n > 1 /\ raw[n - 1] = CR /\ raw[n] = LF
                    THEN SubSeq(raw, 1, n - 2) ELSE SubSeq(raw, 1, n - 1))
              ELSE raw
      line == IF ~translate \/ body = raw THEN raw ELSE body \o <<LF>>
  IN [line |-> line, pos |-> e]

(***************************************************************************)
(* csv.reader (default dialect: delimiter ",", quotechar '"', doublequote, *)
(* not strict): the character state machine of the csv module              *)
(***************************************************************************)
parse_save_field(st) ==
  [st EXCEPT !.fields = Append(st.fields, st.field), !.field = <<>>]

parse_process_char(st, c) ==
  LET state == IF st.state = "START_RECORD" /\ c \notin {EOL, LF, CR}
               THEN "START_FIELD" ELSE st.state
      after_nl == IF c = EOL THEN "START_RECORD" ELSE "EAT_CRNL"
  IN CASE state = "START_RECORD" ->
            IF c = EOL THEN st ELSE [st EXCEPT !.state = "EAT_CRNL"]
       [] state = "START_FIELD" ->
            IF c \in {LF, CR, EOL}
            THEN [parse_save_field(st) EXCEPT !.state = after_nl]
            ELSE IF c = QUOTE THEN [st EXCEPT !.state = "IN_QUOTED_FIELD"]
            ELSE IF c = COMMA
            THEN [parse_save_field(st) EXCEPT !.state = "START_FIELD"]
            ELSE [st EXCEPT !.field = Append(st.field, c), !.state = "IN_FIELD"]
       [] state = "IN_FIELD" ->
            IF c \in {LF, CR, EOL}
            THEN [parse_save_field(st) EXCEPT !.state = after_nl]
            ELSE IF c = COMMA
            THEN [parse_save_field(st) EXCEPT !.state = "START_FIELD"]
            ELSE [st EXCEPT !.field = Append(st.field, c)]
       [] state = "IN_QUOTED_FIELD" ->
            IF c = EOL THEN st
            ELSE IF c = QUOTE
            THEN [st EXCEPT !.state = "QUOTE_IN_QUOTED_FIELD"]
            ELSE [st EXCEPT !.field = Append(st.field, c)]
       [] state = "QUOTE_IN_QUOTED_FIELD" ->
            IF c = QUOTE
            THEN [st EXCEPT !.field = Append(st.field, c),
                            !.state = "IN_QUOTED_FIELD"]
            ELSE IF c = COMMA
            THEN [parse_save_field(st) EXCEPT !.state = "START_FIELD"]
            ELSE IF c \in {LF, CR, EOL}
            THEN [parse_save_field(st) EXCEPT !.state = after_nl]
            ELSE [st EXCEPT !.field = Append(st.field, c), !.state = "IN_FIELD"]
       [] state = "EAT_CRNL" ->
            IF c \in {LF, CR} THEN st
            ELSE IF c = EOL THEN [st EXCEPT !.state = "START_RECORD"]
            ELSE [st EXCEPT !.error = TRUE]

RECURSIVE ParseChars(_, _, _)
ParseChars(st, line, i) ==
  IF st.error THEN st
  ELSE IF i > Len(line) THEN parse_process_char(st, EOL)
  ELSE ParseChars(parse_process_char(st, line[i]), line, i + 1)

\* Reader.__next__: lines are consumed until the state machine is back at
\* the start of a record; at the end of the input a pending field closes
\* the record, and with nothing pending the iteration stops
RECURSIVE ReaderNextFrom(_, _, _, _, _)
ReaderNextFrom(st, text, len, pos, translate) ==
  IF pos >= len
  THEN IF st.field # <<>> \/ st.state = "IN_QUOTED_FIELD"
       THEN [stop |-> FALSE, error |-> FALSE,
             row |-> parse_save_field(st).fields, pos |-> pos]
       ELSE [stop |-> TRUE, error |-> FALSE, row |-> <<>>, pos |-> pos]
  ELSE LET l == ReadLine(text, len, pos, translate)
           st2 == ParseChars(st, l.line, 1)
       IN IF st2.error
          THEN [stop |-> FALSE, error |-> TRUE, row |-> <<>>, pos |-> l.pos]
          ELSE IF st2.state # "START_RECORD"
          THEN ReaderNextFrom(st2, text, len, l.pos, translate)
          ELSE [stop |-> FALSE, error |-> FALSE, row |-> st2.fields,
                pos |-> l.pos]

\* next(reader) on a text of len characters read from position pos
ReaderNext(text, len, pos, translate) ==
  ReaderNextFrom([state |-> "START_RECORD", fields |-> <<>>, field |-> <<>>,
                  error |-> FALSE], text, len, pos, translate)

\* next(reader) of csv.reader(infile), infile opened in universal newlines
\* mode (line 68, line 71)
InfileNext(text, len, pos) == ReaderNext(text, len, pos, TRUE)

(***************************************************************************)
(* csv.writer (QUOTE_MINIMAL, lineterminator "\r\n")                       *)
(***************************************************************************)
QuoteField(f) ==
  <<QUOTE>> \o Flatten([i \in 1..Len(f) |->
                          IF f[i] = QUOTE THEN <<QUOTE, QUOTE>> ELSE <<f[i]>>])
  \o <<QUOTE>>

FormatField(f) ==
  IF \E i \in 1..Len(f) : f[i] \in {COMMA, QUOTE, CR, LF}
  THEN QuoteField(f) ELSE f

\* writer.writerow(row): the text appended to the file
WriterRow(row) ==
  (IF row = << <<>> >> THEN <<QUOTE, QUOTE>>
   ELSE Flatten([i \in 1..Len(row) |->
                   IF i = 1 THEN FormatField(row[i])
                   ELSE <<COMMA>> \o FormatField(row[i])]))
  \o <<CR, LF>>


(***************************************************************************)
(* Program constants                                                       *)
(***************************************************************************)
\* line 81, line 83: a row needs this many fields and this many are kept
NumCols == 8
\* line 78
update_every == 500
\* the statuses main returns: lines 139, 144, 149, 150
\* (variant: the not-found status the same as the failure status)
ExitNotFound_Mut == 2 - 1
ExitNotFound == 2
ExitDeclined == 0
ExitSuccess == 0
\* (variant: main returning 0 whatever the conversion returned)
ExitFailure_Mut == 1 - 1
ExitFailure == 1

\* line 73
HeaderRow ==
  << <<"M", "A", "C">>,
     <<"S", "S", "I", "D">>,
     <<"A", "u", "t", "h", "M", "o", "d", "e">>,
     <<"F", "i", "r", "s", "t", "S", "e", "e", "n">>,
     <<"C", "h", "a", "n", "n", "e", "l">>,
     <<"R", "S", "S", "I">>,
     <<"C", "u", "r", "r", "e", "n", "t", "L", "a", "t", "i", "t", "u", "d", "e">>,
     <<"C", "u", "r", "r", "e", "n", "t", "L", "o", "n", "g", "i", "t", "u", "d", "e">> >>

\* the words that end the prompt loop (line 42)
QuitWords == { <<"q">>, <<"q", "u", "i", "t">>, <<"e", "x", "i", "t">> }

\* the exception classes of the model; `except Exception` (line 113) catches
\* the subclasses of Exception, which KeyboardInterrupt is not
ExceptionSubclasses == {"OSError", "csv.Error"}

\* (variant: a handler for csv.Error alone)
Caught_Mut(type) == type = "csv.Error"

Caught(type) == type \in ExceptionSubclasses

(***************************************************************************)
(* Bounds of the model                                                     *)
(***************************************************************************)
\* records in a small input file
MaxRecords == 2
\* fields a record may have beyond NumCols
MaxExtra == 1
\* characters of an input path
MaxPathLen == 3
\* progress checkpoints that the long input file reaches
MaxCheckpoints == 2
\* times the program is started on the same file system
MaxRuns == 2
\* records in an input file that is converted MaxRuns times
MaxRerunRecords == 1

(***************************************************************************)
(* Input files.  An input file is the encoding of a sequence of records,   *)
(* each a sequence of fields, in the delimited format: fields joined by    *)
(* commas, a field that holds a comma, a quote or a line break put in      *)
(* quotes with its quotes doubled, every record ended by a line break.     *)
(***************************************************************************)
EncodeRecord(rec, eol) ==
  (IF rec = << <<>> >> THEN <<QUOTE, QUOTE>>
   ELSE Flatten([i \in 1..Len(rec) |->
                   IF i = 1 THEN FormatField(rec[i])
                   ELSE <<COMMA>> \o FormatField(rec[i])]))
  \o eol

Encode(recs, eol) == Flatten([i \in 1..Len(recs) |-> EncodeRecord(recs[i], eol)])

\* a sequence laid out n times, one after the other
Repeated(seq, n) ==
  [i \in 1..(Len(seq) * n) |-> seq[((i - 1) % Len(seq)) + 1]]

(***************************************************************************)
(* State                                                                   *)
(***************************************************************************)
VARIABLES
  pc,               \* control location of the process
  file_path,        \* main's file_path: None or the resolved path
  output_file,      \* convert_to_wigle_csv's output_file
  total_bytes,      \* None or the size of the input
  inpos,            \* bytes of the input consumed by the reader
  open_files,       \* handles held open by the with statement
  processed,        \* valid rows written
  pct,              \* last computed percentage, times PctDen
  last_printed_pct, \* last printed percentage, times PctDen
  exc,              \* None or the exception being raised
  result,           \* value returned by convert_to_wigle_csv
  calls,            \* calls of convert_to_wigle_csv made by this process
  exit_code,        \* None, or the status main returned
  stdout,           \* what this process printed (the prompt loop's own
                    \* messages excepted)
  input_path,       \* file system: the path of the one input file
  input_file,       \* file system: the records of the input file and
                    \* how they are laid out in it
  outfile_rows,     \* file system: None, or the rows written to the
                    \* output file since open() created or emptied it
  runs_left,        \* times the user will start the program again
  prev              \* how the previous process ended

vars == <<pc, file_path, output_file, total_bytes, inpos,
          open_files, processed, pct, last_printed_pct, exc, result, calls,
          exit_code, stdout, input_path, input_file, outfile_rows,
          runs_left, prev>>

fs == <<input_path, input_file>>
locals == <<output_file, total_bytes, inpos, open_files, processed, pct,
            last_printed_pct>>

\* the input file is recs, laid out repeat times one after the other, each
\* record ended by the line break eol
infile_data == Repeated(Encode(input_file.recs, input_file.eol), input_file.repeat)

\* os.path.getsize(file_path) (line 62)
infile_size == Len(Encode(input_file.recs, input_file.eol)) * input_file.repeat

\* the output file holds what writer.writerow wrote for each row (lines 73
\* and 84)
Written(rows) ==
  IF rows = None THEN None
  ELSE Some(Flatten([i \in 1..Len(Val(rows)) |-> WriterRow(Val(rows)[i])]))

outfile_data == Written(outfile_rows)

\* os.path.isfile: the input file is the only file the user names
IsFile(p) == p = input_path

\* percentages are rationals with the denominator total_bytes; the model
\* keeps the numerator: a percentage x is held as x * PctDen(total_bytes)
PctDen(total) == IF total # None /\ Val(total) > 0 THEN Val(total) ELSE 1

\* min(100.0, infile.tell() / total_bytes * 100.0), times PctDen (line 91)
Percent(total, tell) == Min(100 * PctDen(total), tell * 100)

\* (variant: the comparison without abs and the wrong way round)
ShouldRedraw_Mut(p, last, den) == (last - p) * 10 >= den \/ last < 0

\* abs(pct - last_printed_pct) >= 0.1 or last_printed_pct < 0 (line 96)
ShouldRedraw(p, last, den) == Abs(p - last) * 10 >= den \/ last < 0

\* processed % update_every == 0 (line 87)
IsCheckpoint(n) == n % update_every = 0

\* (variant: the comparison off by one)
IsMalformed_Mut(row) == Len(row) <= NumCols

\* len(row) < 8 (line 81)
IsMalformed(row) == Len(row) < NumCols

\* row[:8] (line 83)
FirstCols(row) == SubSeq(row, 1, NumCols)

\* (variant: a handler that empties the output file)
HandlerOutput_Mut(old) == IF old = None THEN None ELSE Some(<<>>)

\* lines 113-115: the handler prints and returns; it neither removes nor
\* truncates the output file
HandlerOutput(old) == old

\* (variant: the output opened for appending)
OpenForWrite_Mut(old) == IF old = None THEN Some(<<>>) ELSE old

\* open(output_file, "w"): created or truncated (line 69)
OpenForWrite(old) == Some(<<>>)

Event(kind, rows, p) == [kind |-> kind, rows |-> rows, pct |-> p]

Raise(type, at) == Some([type |-> type, at |-> at])

\* the command line: no argument, an empty one, a path that names no file,
\* the path of the input file, the same in quotes
Argv(path) ==
  {None, Some(<<>>), Some(<<"z">>), Some(path),
   Some(<<QUOTE>> \o path \o <<QUOTE>>)}

\* how a finished process ended
Outcome ==
  IF exit_code = None THEN "crashed"
  ELSE IF calls > 0 THEN (IF result # None THEN "success" ELSE "failure")
  ELSE IF file_path = None THEN "declined"
  ELSE "notfound"


(***************************************************************************)
(* main (lines 120-150) and prompt_for_file (lines 25-48)                  *)
(***************************************************************************)
\* lines 132-144: args_file is args.file; it is used when it is not empty,
\* and must then name a file; otherwise the user is prompted
Main ==
  /\ pc = "main"
  /\ \E args_file \in Argv(input_path) :
       IF args_file # None /\ Val(args_file) # <<>>
       THEN LET p == _normalize_path(Val(args_file))
            IN /\ file_path' = Some(p)
               /\ IF ~IsFile(p)
                  THEN /\ stdout' = Append(stdout, Event("notfound", 0, 0))
                       /\ exit_code' = Some(ExitNotFound)
                       /\ pc' = "exit"
                  ELSE /\ pc' = "convert"
                       /\ UNCHANGED <<stdout, exit_code>>
       ELSE /\ pc' = "prompt"
            /\ UNCHANGED <<file_path, stdout, exit_code>>
  /\ UNCHANGED <<locals, exc, result, calls, fs, outfile_rows,
                 runs_left, prev>>

\* what the user may type at the prompt
Typed ==
  { <<>>, <<SPACE>>, <<"q">>, <<SPACE, "Q">>, <<"e", "x", "i", "t">>,
    <<"z">>, input_path, <<SPACE, QUOTE>> \o input_path \o <<QUOTE, LF>>,
    <<APOS>> \o input_path \o <<APOS>> }

\* one turn of the loop of prompt_for_file, and lines 141-144 of main when
\* it returns; eof is input() raising EOFError or KeyboardInterrupt
Prompt ==
  /\ pc = "prompt"
  /\ \E eof \in BOOLEAN, typed \in Typed :
       LET s == Strip(typed, {SPACE, LF, CR})
           p == _normalize_path(s)
           quit == eof \/ (s # <<>> /\ Lower(s) \in QuitWords)
       IN IF quit
          THEN /\ file_path' = None
               /\ stdout' = Append(stdout, Event("nofile", 0, 0))
               /\ exit_code' = Some(ExitDeclined)
               /\ pc' = "exit"
          ELSE IF s # <<>> /\ IsFile(p)
          THEN /\ file_path' = Some(p)
               /\ pc' = "convert"
               /\ UNCHANGED <<stdout, exit_code>>
          ELSE UNCHANGED <<file_path, stdout, exit_code, pc>>
  /\ UNCHANGED <<locals, exc, result, calls, fs, outfile_rows,
                 runs_left, prev>>

\* lines 146-150
MainAfter ==
  /\ pc = "after"
  /\ IF result # None
     THEN /\ stdout' = Append(stdout, Event("done", 0, 0))
          /\ exit_code' = Some(ExitSuccess)
     ELSE /\ exit_code' = Some(ExitFailure)
          /\ UNCHANGED stdout
  /\ pc' = "exit"
  /\ UNCHANGED <<file_path, locals, exc, result, calls, fs,
                 outfile_rows, runs_left, prev>>

(***************************************************************************)
(* convert_to_wigle_csv (lines 51-117)                                     *)
(***************************************************************************)
\* lines 56-66: the output path, and the size query whose failure is
\* swallowed
ConvertStart ==
  /\ pc = "convert"
  /\ calls' = calls + 1
  /\ output_file' = OutputPath(Val(file_path))
  /\ \E size_ok \in BOOLEAN :
       total_bytes' = IF size_ok THEN Some(infile_size) ELSE None
  /\ stdout' = Append(stdout, Event("starting", 0, 0))
  /\ pc' = "open"
  /\ UNCHANGED <<file_path, inpos, open_files, processed, pct,
                 last_printed_pct, exc, result, exit_code, fs, outfile_rows,
                 runs_left, prev>>

\* lines 68-69: the with statement opens the input, then the output; when
\* the second open fails the first file is closed again
OpenFiles ==
  /\ pc = "open"
  /\ \E failing \in {"none", "infile", "outfile"} :
       IF failing = "none"
       THEN /\ open_files' = {"infile", "outfile"}
            /\ inpos' = 0
            /\ outfile_rows' = OpenForWrite(outfile_rows)
            /\ pc' = "header"
            /\ UNCHANGED exc
       ELSE /\ exc' = Raise("OSError", failing)
            /\ pc' = "except"
            /\ UNCHANGED <<open_files, inpos, outfile_rows>>
  /\ UNCHANGED <<file_path, output_file, total_bytes, processed,
                 pct, last_printed_pct, result, calls, exit_code, stdout, fs,
                 runs_left, prev>>

\* lines 71-78: the header row and the progress state
WriteHeader ==
  /\ pc = "header"
  /\ \E write_ok \in BOOLEAN :
       IF write_ok
       THEN /\ outfile_rows' = Some(Append(Val(outfile_rows), HeaderRow))
            /\ processed' = 0
            /\ last_printed_pct' = 0 - PctDen(total_bytes)
            /\ pc' = "loop"
            /\ UNCHANGED <<exc, open_files>>
       ELSE /\ exc' = Raise("OSError", "header")
            /\ open_files' = {}
            /\ pc' = "except"
            /\ UNCHANGED <<outfile_rows, processed, last_printed_pct>>
  /\ UNCHANGED <<file_path, output_file, total_bytes, inpos, pct,
                 result, calls, exit_code, stdout, fs, runs_left, prev>>

\* lines 80-98: one turn of the loop.  fault is what the environment does
\* to this turn: a failing read, a failing write, Ctrl-C; tell_ok is
\* whether infile.tell() answers (it raises OSError while the file is
\* being iterated, which line 92 swallows)
LoopStep ==
  /\ pc = "loop"
  /\ LET r == InfileNext(infile_data, infile_size, inpos)
         valid == ~r.stop /\ ~r.error /\ ~IsMalformed(r.row)
         n == processed + 1
         den == PctDen(total_bytes)
     IN \E fault \in {"none", "read", "write", "interrupt"}, tell_ok \in BOOLEAN :
          LET p == IF total_bytes # None /\ Val(total_bytes) > 0 /\ tell_ok
                   THEN Percent(total_bytes, r.pos) ELSE 0
              redraw == IsCheckpoint(n)
                        /\ ShouldRedraw(p, last_printed_pct, den)
          IN /\ fault = "write" => valid
             /\ IF fault # "none" \/ r.error
                THEN /\ exc' = IF fault = "interrupt"
                               THEN Raise("KeyboardInterrupt", "loop")
                               ELSE IF fault = "none"
                               THEN Raise("csv.Error", "read")
                               ELSE Raise("OSError", fault)
                     /\ open_files' = {}
                     /\ pc' = "except"
                     /\ UNCHANGED <<inpos, outfile_rows, processed, pct,
                                    last_printed_pct, stdout>>
                ELSE IF r.stop
                THEN /\ pc' = "final"
                     /\ UNCHANGED <<inpos, outfile_rows, processed, pct,
                                    last_printed_pct, stdout, exc, open_files>>
                ELSE IF ~valid
                THEN /\ inpos' = r.pos
                     /\ UNCHANGED <<pc, outfile_rows, processed, pct,
                                    last_printed_pct, stdout, exc, open_files>>
                ELSE /\ inpos' = r.pos
                     /\ outfile_rows' =
                          Some(Append(Val(outfile_rows), FirstCols(r.row)))
                     /\ processed' = n
                     /\ pct' = IF IsCheckpoint(n) THEN p ELSE pct
                     /\ last_printed_pct' =
                          IF redraw THEN p ELSE last_printed_pct
                     /\ stdout' = IF redraw
                                  THEN Append(stdout, Event("progress", n, p))
                                  ELSE stdout
                     /\ UNCHANGED <<pc, exc, open_files>>
  /\ UNCHANGED <<file_path, output_file, total_bytes, result,
                 calls, exit_code, fs, runs_left, prev>>

\* lines 100-111 and 117: the summary, the end of the with statement, whose
\* close may fail to flush, and the return of the output path
Final ==
  /\ pc = "final"
  /\ \E tell_ok \in BOOLEAN, close_ok \in BOOLEAN :
       LET den == PctDen(total_bytes)
           final_pct == IF total_bytes # None /\ Val(total_bytes) > 0 /\ tell_ok
                        THEN Percent(total_bytes, inpos) ELSE 100 * den
       IN /\ stdout' = Append(stdout, Event("summary", processed, final_pct))
          /\ open_files' = {}
          /\ IF close_ok
             THEN /\ result' = Some(output_file)
                  /\ pc' = "after"
                  /\ UNCHANGED exc
             ELSE /\ exc' = Raise("OSError", "close")
                  /\ pc' = "except"
                  /\ UNCHANGED result
  /\ UNCHANGED <<file_path, output_file, total_bytes, inpos,
                 processed, pct, last_printed_pct, calls, exit_code, fs,
                 outfile_rows, runs_left, prev>>

\* lines 113-115: an Exception is reported and None returned; anything
\* else leaves convert_to_wigle_csv and main as an uncaught exception
Except ==
  /\ pc = "except"
  /\ IF Caught(Val(exc).type)
     THEN /\ stdout' = Append(stdout, Event("error", 0, 0))
          /\ result' = None
          /\ pc' = "after"
     ELSE /\ pc' = "exit"
          /\ UNCHANGED <<stdout, result>>
  /\ outfile_rows' = HandlerOutput(outfile_rows)
  /\ UNCHANGED <<file_path, locals, exc, calls, exit_code, fs, runs_left,
                 prev>>

\* the user starts the program again on the same files
NewProcess ==
  /\ pc = "exit"
  /\ runs_left > 0
  /\ runs_left' = runs_left - 1
  /\ prev' = [outcome |-> Outcome, exit_code |-> exit_code,
              out |-> outfile_rows]
  /\ pc' = "main"
  /\ file_path' = None
  /\ output_file' = <<>>
  /\ total_bytes' = None
  /\ inpos' = 0
  /\ open_files' = {}
  /\ processed' = 0
  /\ pct' = 0
  /\ last_printed_pct' = 0 - 1
  /\ exc' = None
  /\ result' = None
  /\ calls' = 0
  /\ exit_code' = None
  /\ stdout' = <<>>
  /\ UNCHANGED <<fs, outfile_rows>>

(***************************************************************************)
(* Initial conditions                                                      *)
(***************************************************************************)
\* a record of n fields, the j-th holding the digits of j
Plain(n) == [j \in 1..n |-> <<ToString(j)>>]

\* field values that need quoting
SpecialFields == { <<COMMA, QUOTE>>, <<"x", CR, LF>> }

\* the blank line, records one field short, records of NumCols fields and
\* more, and records whose last kept field needs quoting
RecordKinds ==
  {Plain(n) : n \in {0, NumCols - 1} \cup NumCols..(NumCols + MaxExtra)}
  \cup {[Plain(NumCols) EXCEPT ![NumCols] = f] : f \in SpecialFields}

Inputs(max) == UNION {[1..n -> RecordKinds] : n \in 0..max}

LineBreaks == { <<LF>>, <<CR, LF>> }

\* a record of NumCols empty fields
EmptyFields == [j \in 1..NumCols |-> <<>>]

\* a long input: EmptyFields over and over, with a blank line after every
\* second one when blanks is TRUE, holding at least one valid record more
\* than MaxCheckpoints * update_every
LongInput(blanks) ==
  IF blanks
  THEN [recs |-> <<EmptyFields, EmptyFields, <<>>>>, eol |-> <<LF>>,
        repeat |-> (MaxCheckpoints * update_every) \div 2 + 1]
  ELSE [recs |-> <<EmptyFields>>, eol |-> <<LF>>,
        repeat |-> MaxCheckpoints * update_every + 1]

CaptureLog == <<"c", "a", "p", "t", "u", "r", "e", ".", "l", "o", "g">>
DataTarCsv == <<"d", "a", "t", "a", ".", "t", "a", "r", ".", "c", "s", "v">>

\* the paths of at most MaxPathLen characters that can name a file
PathChars == {"a", DOT, SEP}

ShortPaths ==
  {p \in UNION {[1..n -> PathChars] : n \in 1..MaxPathLen} : p[Len(p)] # SEP}

\* the state of a process that has just started
InitProcess ==
  /\ pc = "main"
  /\ file_path = None
  /\ output_file = <<>>
  /\ total_bytes = None
  /\ inpos = 0
  /\ open_files = {}
  /\ processed = 0
  /\ pct = 0
  /\ last_printed_pct = 0 - 1
  /\ exc = None
  /\ result = None
  /\ calls = 0
  /\ exit_code = None
  /\ stdout = <<>>
  /\ prev = [outcome |-> "none", exit_code |-> None, out |-> None]

Once(recs, eol) == [recs |-> recs, eol |-> eol, repeat |-> 1]

\* one record of NumCols fields
OneRecord == Once(<<Plain(NumCols)>>, <<LF>>)

\* a file system with one input file and no output file
InitFiles(path, file, runs) ==
  /\ input_path = path
  /\ input_file = file
  /\ outfile_rows = None
  /\ runs_left = runs

\* the program run a second time on a one-record file: part of every
\* initial condition
InitOneRecord == InitFiles(CaptureLog, OneRecord, 1)

\* small input files of every shape, converted once
Init ==
  /\ \/ \E recs \in Inputs(MaxRecords), eol \in LineBreaks :
          InitFiles(CaptureLog, Once(recs, eol), 0)
     \/ InitOneRecord
  /\ InitProcess

\* input files of at most MaxRerunRecords records, converted MaxRuns times
InitRerun ==
  /\ \E recs \in Inputs(MaxRerunRecords), eol \in LineBreaks :
       InitFiles(CaptureLog, Once(recs, eol), MaxRuns - 1)
  /\ InitProcess

\* every short input path
InitPath ==
  /\ \/ \E path \in ShortPaths \cup {CaptureLog, DataTarCsv} :
          InitFiles(path, OneRecord, 0)
     \/ InitOneRecord
  /\ InitProcess

\* a long input file
InitProgress ==
  /\ \/ \E blanks \in BOOLEAN : InitFiles(CaptureLog, LongInput(blanks), 0)
     \/ InitOneRecord
  /\ InitProcess

Next ==
  \/ Main
  \/ Prompt
  \/ MainAfter
  \/ ConvertStart
  \/ OpenFiles
  \/ WriteHeader
  \/ LoopStep
  \/ Final
  \/ Except
  \/ NewProcess


Spec == Init /\ [][Next]_vars
SpecRerun == InitRerun /\ [][Next]_vars
SpecPath == InitPath /\ [][Next]_vars
SpecProgress == InitProgress /\ [][Next]_vars

TypeOK ==
  /\ pc \in {"main", "prompt", "convert", "open", "header", "loop", "final",
             "except", "after", "exit"}
  /\ processed >= 0
  /\ calls \in 0..1


(***************************************************************************)
(* Definitions used to state the properties                                *)
(***************************************************************************)
\* the records of a text in the delimited format, line breaks inside
\* quoted fields kept as they are
RECURSIVE ParseAll(_, _)
ParseAll(text, pos) ==
  LET r == ReaderNext(text, Len(text), pos, FALSE)
  IN IF r.stop \/ r.error THEN <<>> ELSE <<r.row>> \o ParseAll(text, r.pos)

OutputRecords == ParseAll(Val(outfile_data), 0)

IsValidRecord(rec) == Len(rec) >= 8

\* the records of the input file
records == Repeated(input_file.recs, input_file.repeat)

ValidRecords == SelectSeq(records, IsValidRecord)

\* convert_to_wigle_csv has returned the output path
Succeeded == pc \in {"after", "exit"} /\ calls > 0 /\ result # None

\* an I/O operation of the conversion has failed
IOFailed == exc # None /\ Val(exc).type = "OSError"

Reported(kind) == \E i \in 1..Len(stdout) : stdout[i].kind = kind

\* C1: after a successful conversion the output file holds the header
\* record followed by exactly as many data records as the input has records
\* of at least 8 fields; with no such record it holds the header alone
C1_HeaderThenValidCount ==
  Succeeded =>
    /\ Len(OutputRecords) = 1 + Len(ValidRecords)
    /\ OutputRecords[1] = HeaderRow

C1_Witness ==
  /\ Succeeded
  /\ Len(ValidRecords) >= 1
  /\ Len(records) > Len(ValidRecords)

\* C2: after a successful conversion the data records of the output are, in
\* the order of the input, the first 8 fields of each input record of at
\* least 8 fields, unmodified
C2_FirstEightVerbatim ==
  Succeeded =>
    Tail(OutputRecords)
      = [i \in 1..Len(ValidRecords) |-> SubSeq(ValidRecords[i], 1, 8)]

\* C3: once an I/O operation of the conversion has failed the pass is over:
\* the process is in the handler or past it, convert_to_wigle_csv was
\* called once and is not called again, it returns None after printing the
\* diagnostic, and main ends with the failure status instead of dying of
\* an uncaught exception
C3_IOFailureIsReported ==
  IOFailed =>
    /\ pc \in {"except", "after", "exit"}
    /\ open_files = {}
    /\ calls = 1
    /\ result = None
    /\ pc # "except" => stdout[Len(stdout)].kind = "error"
    /\ pc = "exit" => exit_code = Some(ExitFailure)

C3_Witness ==
  /\ IOFailed
  /\ Val(exc).at = "write"
  /\ processed >= 1
  /\ pc = "exit"


\* the three outcomes whose exit codes are compared
ThreeOutcomes == {"success", "declined", "failure"}

\* two processes, one after the other, both ended in one of the three
\* outcomes, and not the same one
TwoOutcomes ==
  /\ pc = "exit"
  /\ Outcome \in ThreeOutcomes
  /\ prev.outcome \in ThreeOutcomes
  /\ Outcome # prev.outcome

\* C4: two runs that end in different ones of the outcomes successful
\* conversion, user declined, conversion failure end with different exit
\* codes
C4_ThreeDistinctCodes ==
  TwoOutcomes => exit_code # prev.exit_code

\* C4 as amended: the exit code tells conversion failure from the other two
\* outcomes, which share one exit code
C4_FailureCodeDistinct ==
  TwoOutcomes =>
    IF "failure" \in {Outcome, prev.outcome}
    THEN exit_code # prev.exit_code
    ELSE exit_code = prev.exit_code

C4_Witness ==
  /\ TwoOutcomes
  /\ prev.outcome = "failure"
  /\ Outcome = "declined"

\* the path given on the command line named no file
NotFound == pc = "exit" /\ file_path # None /\ ~IsFile(Val(file_path))

\* C5: when the path of the command line names no file, the process ends
\* without a call of convert_to_wigle_csv, having printed the not-found
\* diagnostic and nothing else, with a status that is not 0 and is not the
\* status of a run whose conversion failed
C5_NotFoundStatus ==
  /\ NotFound =>
       /\ calls = 0
       /\ stdout = <<Event("notfound", 0, 0)>>
       /\ exit_code \notin {None, Some(0)}
       /\ prev.outcome = "failure" => exit_code # prev.exit_code
  /\ (pc = "exit" /\ Outcome = "failure" /\ prev.outcome = "notfound")
       => exit_code # prev.exit_code

C5_Witness ==
  /\ NotFound
  /\ prev.outcome = "failure"

\* the step writes a valid row that brings the count to a multiple of 500
AtCheckpoint ==
  /\ pc = "loop"
  /\ processed' = processed + 1
  /\ processed' % 500 = 0

\* the step prints a progress update
Emits ==
  /\ Len(stdout') = Len(stdout) + 1
  /\ stdout'[Len(stdout')].kind = "progress"

ProgressSoFar == SelectSeq(stdout, LAMBDA e : e.kind = "progress")

\* C6: a progress update is printed only by a step that brings the count of
\* rows written to a positive multiple of 500; such a step prints one
\* exactly when none was printed before in this run or the percentage it
\* computed is at least 0.1 away from the last one printed; a printed
\* percentage is the computed one and lies between 0 and 100
C6_ProgressThrottle ==
  [][ /\ Emits => AtCheckpoint /\ processed' > 0
      /\ AtCheckpoint =>
           (Emits <=>
              \/ ProgressSoFar = <<>>
              \/ Abs(pct' - ProgressSoFar[Len(ProgressSoFar)].pct) * 10
                   >= PctDen(total_bytes))
      /\ Emits =>
           /\ stdout'[Len(stdout')].pct = pct'
           /\ stdout'[Len(stdout')].rows = processed'
           /\ pct' >= 0
           /\ pct' <= 100 * PctDen(total_bytes)
    ]_vars

\* a second checkpoint passed in silence after a first that printed
C6_Witness ==
  /\ processed = 2 * 500
  /\ Len(ProgressSoFar) = 1

\* C7: with the input size unavailable every step that brings the count of
\* rows written to a multiple of 500 prints a progress update with that
\* count and the percentage 0
C7_RowCountKeepsUpdating ==
  [][ (AtCheckpoint /\ total_bytes = None) =>
        /\ Emits
        /\ stdout'[Len(stdout')].rows = processed'
        /\ stdout'[Len(stdout')].pct = 0
    ]_vars

\* the name without its extension: the extension starts at the last dot of
\* the name, if a character other than a dot comes before that dot
Stem(name) ==
  LET last == RFind(name, DOT) + 1
  IN IF last > 1 /\ \E i \in 1..(last - 1) : name[i] # DOT
     THEN SubSeq(name, 1, last - 1) ELSE name

\* C8: the output path lies in the directory of the input path, its name
\* is the input's name without its last extension followed by .wigle.csv,
\* and it is never the input path
C8_OutputPath ==
  calls > 0 =>
    LET p == Val(file_path)
    IN /\ Dirname(output_file) = Dirname(p)
       /\ Basename(output_file) = Stem(Basename(p)) \o WigleSuffix
       /\ output_file # p
       /\ p = CaptureLog =>
            output_file = <<"c", "a", "p", "t", "u", "r", "e">> \o WigleSuffix
       /\ p = DataTarCsv =>
            output_file = <<"d", "a", "t", "a", ".", "t", "a", "r">>
                          \o WigleSuffix

C8_Witness ==
  /\ calls > 0
  /\ file_path = Some(DataTarCsv)

\* C9: a successful conversion that follows a successful conversion of the
\* same input leaves the output file with the content the first one left
C9_SameOutputTwice ==
  (Succeeded /\ prev.outcome = "success") => outfile_data = Written(prev.out)

C9_Witness ==
  /\ Succeeded
  /\ prev.outcome = "success"
  /\ processed >= 1

\* the conversion failed in the loop, on a read or on a write, and the
\* process has ended
FailedMidStream ==
  IOFailed /\ Val(exc).at \in {"read", "write"} /\ pc = "exit"

\* C10: after a failure in the loop the output file still exists and holds
\* the header and the rows written before the failure, None was returned
\* and no summary was printed
C10_NoRollback ==
  FailedMidStream =>
    /\ outfile_data # None
    /\ Len(OutputRecords) = 1 + processed
    /\ OutputRecords[1] = HeaderRow
    /\ result = None
    /\ exit_code = Some(ExitFailure)
    /\ ~Reported("summary")

C10_Witness ==
  /\ FailedMidStream
  /\ Val(exc).at = "read"
  /\ processed >= 1

=============================================================================
